---- MODULE Spec2Model ----
(***************************************************************************)
(* A model of src/forecast.py: one run of Forecast(city).get_forecast().   *)
(* The run dispatches the city lookup, validates and parses its response,  *)
(* dispatches the forecast request, and formats the first forecast entry.  *)
(* The two HTTP responses (or connection failures) are the environment's   *)
(* choice.  Characters are one-character strings, texts are sequences of   *)
(* characters.                                                             *)
(***************************************************************************)
EXTENDS Integers, Sequences, FiniteSets

VARIABLES city, pc, sent, lookupResp, forecastResp, location_key, log,
          exitStatus, uncaught

vars == <<city, pc, sent, lookupResp, forecastResp, location_key, log,
          exitStatus, uncaught>>

\* ---- bounds ----
MaxCityLen == 2
MaxItems == 2

\* ---- program constants ----
CITY_SEARCH_URL == "http://dataservice.accuweather.com/locations/v1/cities/search/"
FORECAST_URL == "http://dataservice.accuweather.com/forecasts/v1/hourly/1hour/"
DEGREE_SIGN == "DEGREE SIGN"
DateLen == 10

None == "None"

SeqsUpTo(S, n) == UNION {[1..k -> S] : k \in 0..n}

\* ---- the command-line argument ----
Letters == {"a"}
CityChars == Letters \cup {"1", " "}
Cities == SeqsUpTo(CityChars, MaxCityLen)

\* a validity check that accepts a text as soon as one character is a letter
IsAlpha_AnyLetter(s) == \E i \in 1..Len(s) : s[i] \in Letters

\* str.isalpha(): at least one character, and every character alphabetic
IsAlpha(s) == Len(s) > 0 /\ \A i \in 1..Len(s) : s[i] \in Letters

\* ---- HTTP responses ----
Statuses == {200, 304, 404, 500}
NoResponse == [status |-> 0, body |-> [kind |-> "none", items |-> <<>>]]

\* a status check that raises for server errors only
RaisesForStatus_ServerOnly(s) == 500 <= s /\ s < 600

\* Response.raise_for_status(): raises HTTPError for 4xx and 5xx only
RaisesForStatus(s) == 400 <= s /\ s < 600
HTTPErrorMessage(s) == IF s < 500 THEN "Client Error" ELSE "Server Error"

\* bodies: text that is no JSON, JSON null, a JSON object, a JSON array
NotJson == [kind |-> "notjson", items |-> <<>>]
JsonNull == [kind |-> "null", items |-> <<>>]
JsonObject(members) == [kind |-> "object", items |-> members]
JsonArray(items) == [kind |-> "array", items |-> items]

\* an emptiness test written as `r is None`
Falsy_NullOnly(b) == b.kind = "null"

\* Python truthiness of a parsed body: `not r`
Falsy(b) == b.kind = "null" \/ (b.kind \in {"array", "object"} /\ Len(b.items) = 0)

LookupEntries == {[Key |-> "k1"], [Key |-> "k2"], [ID |-> "x"]}
LookupBodies ==
    {NotJson, JsonNull, JsonObject(<<>>), JsonObject(<<[Code |-> "x"]>>)}
    \cup {JsonArray(s) : s \in SeqsUpTo(LookupEntries, MaxItems)}
LookupResponses == [status : Statuses, body : LookupBodies]

\* the error line of the except blocks: f"{type(e).__name__}: {e.args[0]}"
ErrorLine(kind, msg) == [level |-> "ERROR", line |-> <<kind, ": ", msg>>]

Caught(kind, msg) == [kind |-> "caught", exc |-> kind, msg |-> msg, key |-> None]
Uncaught(kind) == [kind |-> "uncaught", exc |-> kind, msg |-> "", key |-> None]
Returned(key) == [kind |-> "return", exc |-> None, msg |-> "", key |-> key]

\* the key of the last match instead of the first
FirstKey_Last(items) ==
    LET keyed == {i \in 1..Len(items) : "Key" \in DOMAIN items[i]}
    IN items[CHOOSE i \in keyed : \A j \in keyed : j <= i].Key

\* r[0]["Key"] of a non-empty array
FirstKey(items) == items[1].Key

\* a handler that logs nothing and returns None instead of terminating
LookupOutcome_ReturnsNone(c, resp) ==
    IF ~IsAlpha(c) \/ RaisesForStatus(resp.status) \/ resp.body.kind = "notjson"
       \/ Falsy(resp.body)
    THEN Returned(None)
    ELSE IF resp.body.kind = "null" THEN Uncaught("TypeError")
    ELSE IF resp.body.kind = "object" THEN Uncaught("KeyError")
    ELSE IF Len(resp.body.items) = 0 THEN Uncaught("IndexError")
    ELSE IF "Key" \notin DOMAIN resp.body.items[1] THEN Uncaught("KeyError")
    ELSE Returned(FirstKey(resp.body.items))

\* get_location_key after the response arrived: the try block and line 95
LookupOutcome(c, resp) ==
    IF ~IsAlpha(c) THEN Caught("InvalidCityNameError", "City name must be a string.")
    ELSE IF RaisesForStatus(resp.status)
         THEN Caught("HTTPError", HTTPErrorMessage(resp.status))
    ELSE IF resp.body.kind = "notjson" THEN Caught("JSONDecodeError", "Expecting value")
    ELSE IF Falsy(resp.body)
         THEN Caught("EmptyDatabaseError", "There is no match in the database.")
    ELSE IF resp.body.kind = "null" THEN Uncaught("TypeError")
    ELSE IF resp.body.kind = "object" THEN Uncaught("KeyError")
    ELSE IF Len(resp.body.items) = 0 THEN Uncaught("IndexError")
    ELSE IF "Key" \notin DOMAIN resp.body.items[1] THEN Uncaught("KeyError")
    ELSE Returned(FirstKey(resp.body.items))

\* ---- calendar dates and their texts ----
Digits == <<"0", "1", "2", "3", "4", "5", "6", "7", "8", "9">>
IsDigit(c) == \E n \in 1..10 : Digits[n] = c
DigitVal(c) == (CHOOSE n \in 1..10 : Digits[n] = c) - 1

RECURSIVE Decimal(_)
\* the decimal digits of a natural number, without padding
Decimal(n) == IF n < 10 THEN <<Digits[n + 1]>>
              ELSE Decimal(n \div 10) \o <<Digits[(n % 10) + 1]>>

RECURSIVE ZeroPad(_, _)
\* a text padded with zeros on the left to width w
ZeroPad(t, w) == IF Len(t) >= w THEN t ELSE ZeroPad(<<"0">> \o t, w)

IsLeap(y) == (y % 4 = 0 /\ y % 100 # 0) \/ y % 400 = 0
DaysInMonth(y, m) == IF m = 2 THEN (IF IsLeap(y) THEN 29 ELSE 28)
                     ELSE IF m \in {4, 6, 9, 11} THEN 30 ELSE 31

\* the texts strptime accepts for %m and %d
MonthForms(m) == {ZeroPad(Decimal(m), 2)} \cup (IF m < 10 THEN {Decimal(m)} ELSE {})
DayForms(d) == {ZeroPad(Decimal(d), 2)}
               \cup (IF d < 10 THEN {Decimal(d), <<" ">> \o Decimal(d)} ELSE {})

ValueError == [ok |-> FALSE, y |-> 0, m |-> 0, d |-> 0]

\* datetime.strptime(date, "%Y-%m-%d"): four year digits, '-', month, '-',
\* day, nothing left over; then the date must exist (year >= 1)
Strptime(s) ==
    IF Len(s) < 4 \/ \E i \in 1..4 : ~IsDigit(s[i]) THEN ValueError
    ELSE LET y == 1000 * DigitVal(s[1]) + 100 * DigitVal(s[2])
                  + 10 * DigitVal(s[3]) + DigitVal(s[4])
             rest == SubSeq(s, 5, Len(s))
             mm == {ml \in (1..12) \X (1..2) :
                      /\ Len(rest) >= ml[2] + 2
                      /\ \E mf \in MonthForms(ml[1]) :
                            SubSeq(rest, 1, ml[2] + 2) = <<"-">> \o mf \o <<"-">>}
             md == UNION {{<<ml[1], d>> : d \in {dd \in 1..31 :
                              SubSeq(rest, ml[2] + 3, Len(rest)) \in DayForms(dd)}}
                          : ml \in mm}
         IN IF md = {} THEN ValueError
            ELSE LET p == CHOOSE q \in md : TRUE
                 IN IF y < 1 \/ p[2] > DaysInMonth(y, p[1]) THEN ValueError
                    ELSE [ok |-> TRUE, y |-> y, m |-> p[1], d |-> p[2]]

\* %Y of strftime: the C library's; glibc prints years below 1000 without
\* zero padding, other platforms pad to four digits (padsYear)
YearText(y, padsYear) == IF padsYear THEN ZeroPad(Decimal(y), 4) ELSE Decimal(y)

\* datetime.strftime(dt, "%d.%m.%Y")
Strftime(dt, padsYear) ==
    ZeroPad(Decimal(dt.d), 2) \o <<".">> \o ZeroPad(Decimal(dt.m), 2) \o <<".">>
    \o YearText(dt.y, padsYear)

\* date[:10]
Prefix(s, n) == SubSeq(s, 1, IF Len(s) < n THEN Len(s) ELSE n)

\* ---- forecast responses ----
Years == {999, 2023, 2024}
Months == {2, 12}
Days == {1, 29, 30, 31}
TimeText == <<"T", "1", "4", ":", "0", "0">>

\* the provider's ISO date-time text for a year, month and day number
IsoDateTime(y, m, d) ==
    ZeroPad(Decimal(y), 4) \o <<"-">> \o ZeroPad(Decimal(m), 2) \o <<"-">>
    \o ZeroPad(Decimal(d), 2) \o TimeText

DateTimes == {IsoDateTime(y, m, d) : y \in Years, m \in Months, d \in Days}
             \cup {<<"2", "0", "2", "3", "-", "6", "-", "5">>}
Temps == {"21.5", "-3"}

ForecastEntry(dt, t) == [DateTime |-> dt, Temperature |-> [Value |-> t]]
FirstEntries == {ForecastEntry(dt, t) : dt \in DateTimes, t \in Temps}
                \cup {[DateTime |-> IsoDateTime(2023, 12, 1)]}
LaterEntries == {ForecastEntry(IsoDateTime(2025, 1, 2), "99.9")}
ForecastArrays ==
    {<<>>} \cup {<<e>> \o t : e \in FirstEntries,
                             t \in SeqsUpTo(LaterEntries, MaxItems - 1)}
ForecastBodies == {NotJson, JsonObject(<<[Code |-> "x"]>>)}
                  \cup {JsonArray(s) : s \in ForecastArrays}
ForecastResponses == [status : Statuses, body : ForecastBodies]

\* the info line: f"Date: {date}, Temperature: {temp}{self.DEGREE_SIGN}C"
InfoLine(date, temp) ==
    [level |-> "INFO",
     line |-> <<"Date: ">> \o date \o <<", Temperature: ", temp, DEGREE_SIGN, "C">>]

Logged(l) == [kind |-> "logged", exc |-> None, msg |-> "", line |-> l]
CaughtF(kind, msg) == [kind |-> "caught", exc |-> kind, msg |-> msg, line |-> None]
UncaughtF(kind) == [kind |-> "uncaught", exc |-> kind, msg |-> "", line |-> None]

\* r[0] of the parsed forecast
FirstForecast(items) == items[1]

\* get_forecast after the response arrived: lines 106-115
ForecastOutcome(resp, padsYear) ==
    IF RaisesForStatus(resp.status)
    THEN CaughtF("HTTPError", HTTPErrorMessage(resp.status))
    ELSE IF resp.body.kind = "notjson" THEN UncaughtF("JSONDecodeError")
    ELSE IF resp.body.kind = "object" THEN UncaughtF("KeyError")
    ELSE IF Len(resp.body.items) = 0 THEN UncaughtF("IndexError")
    ELSE LET e == FirstForecast(resp.body.items) IN
         IF "DateTime" \notin DOMAIN e \/ "Temperature" \notin DOMAIN e
         THEN UncaughtF("KeyError")
         ELSE LET dt == Strptime(Prefix(e.DateTime, DateLen)) IN
              IF ~dt.ok THEN UncaughtF("ValueError")
              ELSE Logged(InfoLine(Strftime(dt, padsYear), e.Temperature.Value))

Init ==
    /\ city \in Cities
    /\ pc = "lookup_request"
    /\ sent = <<>>
    /\ lookupResp = NoResponse
    /\ forecastResp = NoResponse
    /\ location_key = None
    /\ log = <<>>
    /\ exitStatus = None
    /\ uncaught = None

\* a lookup that validates the city before it dispatches the request
GetLocationKeyRequest_ValidatesFirst ==
    /\ pc = "lookup_request"
    /\ IF ~IsAlpha(city)
       THEN /\ log' = Append(log, ErrorLine("InvalidCityNameError",
                                            "City name must be a string."))
            /\ pc' = "exited"
            /\ exitStatus' = 0
            /\ UNCHANGED <<sent, lookupResp, uncaught>>
       ELSE /\ sent' = Append(sent, [url |-> CITY_SEARCH_URL, path |-> None, q |-> city])
            /\ \E resp \in LookupResponses : lookupResp' = resp
            /\ pc' = "lookup_try"
            /\ UNCHANGED <<log, uncaught, exitStatus>>
    /\ UNCHANGED <<city, forecastResp, location_key>>

\* line 82: requests.get of the city search, outside the try block
GetLocationKeyRequest ==
    /\ pc = "lookup_request"
    /\ sent' = Append(sent, [url |-> CITY_SEARCH_URL, path |-> None, q |-> city])
    /\ \/ /\ \E resp \in LookupResponses : lookupResp' = resp
          /\ pc' = "lookup_try"
          /\ UNCHANGED <<uncaught, exitStatus>>
       \/ /\ pc' = "crashed"
          /\ uncaught' = "ConnectionError"
          /\ exitStatus' = 1
          /\ UNCHANGED lookupResp
    /\ UNCHANGED <<city, forecastResp, location_key, log>>

\* lines 85-96
GetLocationKeyTry ==
    /\ pc = "lookup_try"
    /\ LET o == LookupOutcome(city, lookupResp) IN
         \/ /\ o.kind = "caught"
            /\ log' = Append(log, ErrorLine(o.exc, o.msg))
            /\ pc' = "exited"
            /\ exitStatus' = 0
            /\ UNCHANGED <<location_key, uncaught>>
         \/ /\ o.kind = "uncaught"
            /\ pc' = "crashed"
            /\ uncaught' = o.exc
            /\ exitStatus' = 1
            /\ UNCHANGED <<location_key, log>>
         \/ /\ o.kind = "return"
            /\ location_key' = o.key
            /\ pc' = "forecast_request"
            /\ UNCHANGED <<log, exitStatus, uncaught>>
    /\ UNCHANGED <<city, sent, lookupResp, forecastResp>>

\* lines 102-105: requests.get of the forecast, outside the try block
GetForecastRequest ==
    /\ pc = "forecast_request"
    /\ sent' = Append(sent, [url |-> FORECAST_URL, path |-> location_key, q |-> None])
    /\ \/ /\ \E resp \in ForecastResponses : forecastResp' = resp
          /\ pc' = "forecast_try"
          /\ UNCHANGED <<uncaught, exitStatus>>
       \/ /\ pc' = "crashed"
          /\ uncaught' = "ConnectionError"
          /\ exitStatus' = 1
          /\ UNCHANGED forecastResp
    /\ UNCHANGED <<city, lookupResp, location_key, log>>

\* lines 106-115, and the normal end of main
GetForecastTry ==
    /\ pc = "forecast_try"
    /\ \E padsYear \in BOOLEAN :
         LET o == ForecastOutcome(forecastResp, padsYear) IN
           \/ /\ o.kind = "caught"
              /\ log' = Append(log, ErrorLine(o.exc, o.msg))
              /\ pc' = "exited"
              /\ exitStatus' = 0
              /\ UNCHANGED uncaught
           \/ /\ o.kind = "uncaught"
              /\ pc' = "crashed"
              /\ uncaught' = o.exc
              /\ exitStatus' = 1
              /\ UNCHANGED log
           \/ /\ o.kind = "logged"
              /\ log' = Append(log, o.line)
              /\ pc' = "done"
              /\ exitStatus' = 0
              /\ UNCHANGED uncaught
    /\ UNCHANGED <<city, sent, lookupResp, forecastResp, location_key>>

Next == GetLocationKeyRequest \/ GetLocationKeyTry
        \/ GetForecastRequest \/ GetForecastTry

Spec == Init /\ [][Next]_vars
\* ---- properties ----
Ended == pc \in {"done", "exited", "crashed"}
LookupDecided == lookupResp # NoResponse /\ pc # "lookup_try"
ForecastDecided == forecastResp # NoResponse /\ pc # "forecast_try"
CityIsAlphabetic == Len(city) > 0 /\ \A i \in 1..Len(city) : city[i] \in Letters
CityHasNonLetter == \E i \in 1..Len(city) : city[i] \notin Letters
LookupRequests == {i \in 1..Len(sent) : sent[i].url = CITY_SEARCH_URL}
ForecastRequests == {i \in 1..Len(sent) : sent[i].url = FORECAST_URL}
OneErrorLine(kind) ==
    Len(log) = 1 /\ log[1].level = "ERROR" /\ log[1].line[1] = kind

\* C1: a city with a non-alphabetic character ends the lookup in the
\* InvalidCityName failure whatever the status and body of the lookup
\* response are, and no location key is returned.
C1_InvalidCityName ==
    (LookupDecided /\ CityHasNonLetter) =>
        /\ pc = "exited"
        /\ log = <<ErrorLine("InvalidCityNameError", "City name must be a string.")>>
        /\ location_key = None

C1_Witness ==
    /\ LookupDecided /\ CityHasNonLetter
    /\ \E i \in 1..Len(city) : city[i] \in Letters
    /\ lookupResp.status = 200
    /\ lookupResp.body = JsonArray(<<[Key |-> "k1"]>>)
    /\ OneErrorLine("InvalidCityNameError")

\* C2 as stated: any non-2xx status of either endpoint ends the run with one
\* TransportError (HTTPError) line and no forecast line.
C2_AnyNon2xx ==
    /\ (LookupDecided /\ lookupResp.status \notin 200..299) =>
           (pc = "exited" /\ OneErrorLine("HTTPError"))
    /\ (ForecastDecided /\ forecastResp.status \notin 200..299) =>
           (pc = "exited" /\ OneErrorLine("HTTPError"))

\* C2 amended: a 4xx or 5xx status of the lookup response for an alphabetic
\* city, or of the forecast response, ends the run with exactly one
\* HTTPError line, the process terminated, and no forecast line.
C2_ClientOrServerError ==
    /\ (LookupDecided /\ CityIsAlphabetic /\ lookupResp.status \in 400..599) =>
           (pc = "exited" /\ OneErrorLine("HTTPError"))
    /\ (ForecastDecided /\ forecastResp.status \in 400..599) =>
           (pc = "exited" /\ OneErrorLine("HTTPError"))

C2_Witness ==
    /\ ForecastDecided /\ forecastResp.status = 404
    /\ forecastResp.body.kind = "array" /\ Len(forecastResp.body.items) > 0
    /\ pc = "exited" /\ OneErrorLine("HTTPError")

\* C3: every failure is caught, logged as one error line and followed by
\* termination; no exception propagates out of get_location_key or
\* get_forecast.
C3_NoExceptionPropagates ==
    /\ uncaught = None
    /\ pc # "crashed"
    /\ pc = "exited" => (Len(log) = 1 /\ log[1].level = "ERROR")

\* C4: a run that completes normally exits with status 0, and a run that ends
\* in InvalidCityName, EmptyDatabase or TransportError exits with a non-zero
\* status.
C4_ExitStatus ==
    /\ pc = "done" => exitStatus = 0
    /\ (pc = "exited" /\ Len(log) > 0
        /\ log[Len(log)].line[1] \in {"InvalidCityNameError", "EmptyDatabaseError",
                                      "HTTPError"}) => exitStatus # 0

\* C5: every run that has ended emitted exactly one log line: the forecast
\* line iff it succeeded, the error line iff it failed.
C5_ExactlyOneLine ==
    /\ Len(log) <= 1
    /\ Ended => /\ Len(log) = 1
                /\ log[1].level = "INFO" <=> pc = "done"
                /\ log[1].level = "ERROR" <=> pc # "done"

\* C6: an alphabetic city and a success status with an empty array as body
\* end the lookup in EmptyDatabase, with no key and no forecast request.
C6_EmptyDatabase ==
    (LookupDecided /\ CityIsAlphabetic /\ lookupResp.status \in 200..299
     /\ lookupResp.body = JsonArray(<<>>)) =>
        /\ pc = "exited"
        /\ log = <<ErrorLine("EmptyDatabaseError", "There is no match in the database.")>>
        /\ location_key = None
        /\ ForecastRequests = {}

C6_Witness ==
    /\ LookupDecided /\ CityIsAlphabetic /\ lookupResp.status = 200
    /\ lookupResp.body = JsonArray(<<>>)
    /\ OneErrorLine("EmptyDatabaseError")

\* C7: an alphabetic city and a success status with a non-empty array whose
\* first element has a Key make get_location_key return that first Key, and
\* the forecast request carries the same key in its path.
C7_FirstKey ==
    (LookupDecided /\ CityIsAlphabetic /\ lookupResp.status \in 200..299
     /\ lookupResp.body.kind = "array" /\ Len(lookupResp.body.items) > 0
     /\ "Key" \in DOMAIN lookupResp.body.items[1]) =>
        /\ location_key = lookupResp.body.items[1].Key
        /\ pc # "forecast_request" =>
              /\ Len(sent) = 2
              /\ sent[2].url = FORECAST_URL
              /\ sent[2].path = lookupResp.body.items[1].Key

C7_Witness ==
    /\ CityIsAlphabetic /\ lookupResp.status = 200
    /\ lookupResp.body = JsonArray(<<[Key |-> "k2"], [Key |-> "k1"]>>)
    /\ location_key = "k2"
    /\ Len(sent) = 2 /\ sent[2].path = "k2"

\* C8: a successful forecast emits 'Date: DD.MM.YYYY, Temperature: <value>°C'
\* from the first entry: the day, month and year characters of the first ten
\* characters YYYY-MM-DD of DateTime, reordered with their zero padding, and
\* the first entry's Temperature.Value.
C8_ForecastLine ==
    pc = "done" =>
        LET e == forecastResp.body.items[1]
            s == e.DateTime
        IN (Len(s) >= DateLen /\ s[5] = "-" /\ s[8] = "-") =>
              log = <<[level |-> "INFO",
                       line |-> <<"Date: ", s[9], s[10], ".", s[6], s[7], ".",
                                  s[1], s[2], s[3], s[4], ", Temperature: ",
                                  e.Temperature.Value, DEGREE_SIGN, "C">>]>>

\* the same for dates whose year has no leading zero
ForecastLineFromYear1000 ==
    pc = "done" =>
        LET e == forecastResp.body.items[1]
            s == e.DateTime
        IN (Len(s) >= DateLen /\ s[5] = "-" /\ s[8] = "-" /\ s[1] # "0") =>
              log = <<[level |-> "INFO",
                       line |-> <<"Date: ", s[9], s[10], ".", s[6], s[7], ".",
                                  s[1], s[2], s[3], s[4], ", Temperature: ",
                                  e.Temperature.Value, DEGREE_SIGN, "C">>]>>

LeapDayLogged ==
    /\ pc = "done"
    /\ Prefix(forecastResp.body.items[1].DateTime, DateLen)
         = <<"2", "0", "2", "4", "-", "0", "2", "-", "2", "9">>
    /\ Len(forecastResp.body.items) = 2

\* C9: whatever the city, valid, invalid or empty, exactly one lookup request
\* for it has been issued by the time the validity check runs and by the time
\* any outcome is decided.
C9_LookupDispatchedFirst ==
    /\ pc # "lookup_request" =>
          /\ Cardinality(LookupRequests) = 1
          /\ sent[1] = [url |-> CITY_SEARCH_URL, path |-> None, q |-> city]
    /\ pc = "lookup_request" => (log = <<>> /\ sent = <<>>)

C9_Witness ==
    /\ city = <<>>
    /\ pc = "exited"
    /\ OneErrorLine("InvalidCityNameError")
    /\ Cardinality(LookupRequests) = 1

\* C10: a run issues at most one lookup request and at most one forecast
\* request, in that order; the forecast request is issued only when the
\* lookup has returned a location key, and never after a lookup that ended in
\* InvalidCityName, TransportError or EmptyDatabase.
C10_ForecastAfterLookup ==
    /\ Len(sent) <= 2
    /\ Cardinality(LookupRequests) <= 1
    /\ Cardinality(ForecastRequests) <= 1
    /\ \A i \in ForecastRequests :
          /\ i = 2 /\ 1 \in LookupRequests
          /\ location_key # None
          /\ sent[i].path = location_key
          /\ CityIsAlphabetic
          /\ lookupResp.status \notin 400..599
          /\ lookupResp.body.kind = "array" /\ Len(lookupResp.body.items) > 0
          /\ forecastResp = NoResponse => (pc = "crashed" \/ log = <<>>)
    /\ (pc = "exited" /\ forecastResp = NoResponse) =>
          (location_key = None /\ ForecastRequests = {})

C10_Witness ==
    /\ ForecastRequests = {2}
    /\ LookupRequests = {1}
    /\ location_key = "k1"
    /\ pc = "exited"
    /\ OneErrorLine("HTTPError")
====
